---- MODULE Spec2Model ----
(***************************************************************************)
(* The release pipeline of create-python-modern: class ReleaseManager.     *)
(* The repository holds two copies of the script: the current one          *)
(* (src/unnamed/part_002) and an older one (src/scripts/release.js).       *)
(* Both are modelled; the variable script says which one a behaviour runs. *)
(* One action per pipeline step; the world (git working tree, tags,        *)
(* remote, registry, files) is shared by all runs, the ReleaseManager      *)
(* object (mgr), the console and the position in run() are per run.        *)
(***************************************************************************)
EXTENDS Integers, Sequences, FiniteSets, TLC

\* ------------------------------------------------------------- bounds
\* commits on the branch since the most recent tag, initially 0..MaxInitCommits
MaxInitCommits == 1

\* the longest CHANGELOG.md, in lines, the changelog specification starts from
MaxLines == 3

\* ------------------------------------------------- program constants
\* a verification that allows itself one more attempt
MaxRetriesPlusOne == 3 + 1

\* let retries = 3
MaxRetries == 3

\* ------------------------------------------------------------ values
Current == "part_002"
Legacy == "scripts/release.js"
Scripts == {Current, Legacy}

\* process.argv[2] || 'patch' is handed to npm version unvalidated
ReleaseTypes == {"patch", "minor", "major", "prerelease"}

Branches == {"master", "main", "develop"}

\* process.env.NPM_TOKEN: undefined, the empty string, or a secret
Undefined == "<undefined>"
Tokens == {Undefined, "", "npm_SECRET_A"}

NoError == "<none>"

\* A version string, as its dotted numeric parts and whatever follows them.
Ver(p, s) == [parts |-> p, pre |-> s]
Null == Ver(<<>>, "null")

RECURSIVE JoinDots(_)
JoinDots(p) ==
    IF p = <<>> THEN ""
    ELSE IF Len(p) = 1 THEN ToString(p[1])
    ELSE ToString(p[1]) \o "." \o JoinDots(Tail(p))

\* the text of a version, as a template literal prints it
VStr(v) == JoinDots(v.parts) \o v.pre

\* /^\d+\.\d+\.\d+$/.test(version)
versionRegexTest(v) == Len(v.parts) = 3 /\ v.pre = ""

\* npm version <releaseType> --no-git-tag-version (semver.inc)
npmVersion(v, releaseType) ==
    LET x == v.parts[1]
        y == v.parts[2]
        z == v.parts[3]
    IN  CASE releaseType = "patch" ->
               IF v.pre # "" THEN Ver(<<x, y, z>>, "") ELSE Ver(<<x, y, z + 1>>, "")
          [] releaseType = "minor" ->
               IF v.pre # "" /\ z = 0 THEN Ver(<<x, y, 0>>, "") ELSE Ver(<<x, y + 1, 0>>, "")
          [] releaseType = "major" ->
               IF v.pre # "" /\ y = 0 /\ z = 0 THEN Ver(<<x, 0, 0>>, "")
               ELSE Ver(<<x + 1, 0, 0>>, "")
          [] OTHER ->
               IF v.pre = "" THEN Ver(<<x, y, z + 1>>, "-0") ELSE Ver(<<x, y, z>>, "-1")

Range(s) == {s[i] : i \in 1..Len(s)}

\* ------------------------------------------------------------- state
VARIABLES
    script,       \* which copy of the script runs
    runs,         \* the runs of this behaviour
    releaseType,  \* run(releaseType), per run, once versioning() has used it
    env,          \* process.env.NPM_TOKEN
    \* ---- the working tree and the repository
    branch,       \* the branch checked out
    modified,     \* files changed in the working tree and not staged
    staged,       \* files in the index
    manifest,     \* package.json: [version, normalized]
    changelog,    \* CHANGELOG.md: its lines, or NoFile
    tags,         \* names of the tags, as the version after the v
    annotated,    \* the tags that are annotated
    commits,      \* messages of the commits of the branch
    lastTagAt,    \* how many commits the most recent tag has behind it
    \* ---- the remote and the registries
    remote,       \* [branches: pushed branch -> commits, tags: pushed tags]
    registry,     \* versions on the primary registry
    ghRegistry,   \* versions on the secondary registry
    \* ---- report.md
    reportFile,   \* its content: the report written last, or NoFile
    reportWrites, \* how often each run wrote it
    \* ---- per run
    pc,           \* the step run() is about to execute
    mgr,          \* the ReleaseManager: warnings, errors, currentBranch, report
    retries,      \* verification(): the local retries
    console,      \* what log, warn and error printed
    calls,        \* the commands handed to execSync, in order
    thrown,       \* the error run() caught, or NoError
    exit,         \* how the run ended: "running", "returned", "rejected"
    \* ---- the same run in an environment that differs in the token's value only
    twinConsole,  \* what that run printed
    twinSame,     \* whether it took the same branches so far
    \* ---- history
    failedAt,     \* the step whose error run() caught, or "none"
    start         \* the working tree, repository, remote and registries at the start

world == <<branch, modified, staged, manifest, changelog, tags, annotated, commits,
           lastTagAt, remote, registry, ghRegistry, reportFile, reportWrites>>
perRun == <<releaseType, pc, mgr, retries, console, calls, thrown, exit, twinConsole, twinSame,
            failedAt>>
inputs == <<script, runs, env, start>>
vars == <<inputs, world, perRun>>

\* CHANGELOG.md when fs.existsSync finds none
NoFile == <<[h |-> FALSE, t |-> "<no file>"]>>
NoReport == [status |-> "<no file>"]

\* ------------------------------------------------------- constructor
\* a release state that starts with a commit identifier
newReportWithSha ==
    [version |-> Null, commitSha |-> "sha0", issues |-> <<>>, solutions |-> <<>>,
     packageInfo |-> "null", registryUrls |-> <<>>, status |-> "pending"]

newReport ==
    [version |-> Null, commitSha |-> "null", issues |-> <<>>, solutions |-> <<>>,
     packageInfo |-> "null", registryUrls |-> <<>>, status |-> "pending"]

constructor == [warnings |-> <<>>, errors |-> <<>>, currentBranch |-> "null",
                report |-> newReport]

\* ------------------------------------------------ log / warn / error
Line(lvl, text) == [lvl |-> lvl, text |-> text]

\* warn(message): this.warnings.push(message); console.warn
warnMgr(m, message) == [m EXCEPT !.warnings = Append(@, message)]
warnCon(con, message) == Append(con, Line("warn", message))

\* error(message): this.errors.push(message); console.error
errorMgr(m, message) == [m EXCEPT !.errors = Append(@, message)]

\* error.message of a failed execSync(cmd)
CommandFailed(cmd) == "Command failed: " \o cmd

\* the entry of calls for a command that exited with an error
Failed(cmd) == cmd \o " [failed]"

Upd(f, r, v) == [f EXCEPT ![r] = v]

\* ------------------------------------------------------------- run()
\* run() with build awaited before dependenciesAndTests
NextStepSwapped(step) ==
    CASE step = "preVerification" -> "build"
      [] step = "build" -> "dependenciesAndTests"
      [] step = "dependenciesAndTests" -> "versioning"
      [] step = "versioning" -> "updateChangelog"
      [] step = "updateChangelog" -> "commitAndTag"
      [] step = "commitAndTag" -> "push"
      [] step = "push" -> "publishToNpm"
      [] step = "publishToNpm" -> "publishToGitHub"
      [] step = "publishToGitHub" -> "verification"
      [] step = "verification" -> "generateReport"
      [] OTHER -> "done"

\* The order of the awaits in run().
NextStep(step) ==
    CASE step = "preVerification" -> "dependenciesAndTests"
      [] step = "dependenciesAndTests" -> "build"
      [] step = "build" -> "versioning"
      [] step = "versioning" -> "updateChangelog"
      [] step = "updateChangelog" -> "commitAndTag"
      [] step = "commitAndTag" -> "push"
      [] step = "push" -> "publishToNpm"
      [] step = "publishToNpm" -> "publishToGitHub"
      [] step = "publishToGitHub" -> "verification"
      [] step = "verification" -> "generateReport"
      [] OTHER -> "done"

\* a catch that rethrows without generating the report
afterCatchNoReport == "done"

\* catch (error) { ...; await this.generateReport(); throw error }
afterCatch == "generateReport"

\* catch (error) { this.error(`Error en el proceso: ${error.message}`) ...
runCatchMgr(m, err) == errorMgr(m, "Error en el proceso: " \o err)
runCatchOut(err) == <<Line("error", "Error en el proceso: " \o err)>>

\* the older script's catch: console.error twice, nothing recorded
runCatchMgrLegacy(m, err) == m
runCatchOutLegacy(err) ==
    <<Line("error", "DEBUG: Error en el proceso: " \o err),
      Line("error", "DEBUG: Stack trace")>>

\* a catch that marks the release state failed itself
catchMgrSetsStatus(m, err) == [m EXCEPT !.errors = Append(@, err), !.report.status = "failed"]

catchMgr(m, err) == IF script = Current THEN runCatchMgr(m, err) ELSE runCatchMgrLegacy(m, err)
catchOut(err) == IF script = Current THEN runCatchOut(err) ELSE runCatchOutLegacy(err)

\* the console.log('DEBUG: Ejecutando <step>()') the older run() prints before a step
debugOut(step) ==
    IF script = Legacy THEN <<Line("log", "DEBUG: Ejecutando " \o step \o "()")>> ELSE <<>>

\* What a step leaves in the run: the manager m, the lines out it printed, the
\* commands cl it issued, and the error err it threw (NoError: it completed and
\* run() goes on to the step after it; otherwise run()'s catch takes over, and
\* the report is generated next).
Settle(r, step, m, out, cl, err, twinOut, twinErr, same) ==
    /\ calls' = Upd(calls, r, calls[r] \o cl)
    /\ twinSame' = Upd(twinSame, r, twinSame[r] /\ same /\ twinErr = err)
    /\ twinConsole' =
         Upd(twinConsole, r, twinConsole[r] \o debugOut(step) \o twinOut
                 \o (IF twinErr = NoError THEN <<>> ELSE catchOut(twinErr)))
    /\ IF err = NoError
       THEN /\ mgr' = Upd(mgr, r, m)
            /\ console' = Upd(console, r, console[r] \o debugOut(step) \o out)
            /\ pc' = Upd(pc, r, NextStep(step))
            /\ UNCHANGED <<thrown, failedAt>>
       ELSE /\ mgr' = Upd(mgr, r, catchMgr(m, err))
            /\ console' = Upd(console, r, console[r] \o debugOut(step) \o out \o catchOut(err))
            /\ pc' = Upd(pc, r, afterCatch)
            /\ thrown' = Upd(thrown, r, err)
            /\ failedAt' = Upd(failedAt, r, step)
    /\ UNCHANGED <<exit, inputs>>

\* A step that reads nothing of the environment prints the same in the twin run.
Done(r, step, m, out, cl, err) == Settle(r, step, m, out, cl, err, out, err, TRUE)

\* ------------------------------------------------ 1. preVerification
\* a status check that reports a clean tree whatever the tree holds
gitStatusAlwaysClean == {}

\* a status check that lists the unstaged changes only
gitStatusUnstagedOnly == modified

\* git status --porcelain, trimmed, is non-empty
gitStatus == modified \cup staged

\* npm pkg fix rewrites package.json when it is not in normal form
npmPkgFix(mf) == [mf EXCEPT !.normalized = TRUE]

preVerification(r) ==
    /\ pc[r] = "preVerification"
    /\ LET b == branch
           m1 == IF script = Current THEN [mgr[r] EXCEPT !.currentBranch = b] ELSE mgr[r]
           o1 == <<Line("log", "=== PASO 1: Verificacion previa ===")>>
           c1 == <<"git rev-parse --abbrev-ref HEAD">>
       IN  IF b # "master" /\ b # "main"
           THEN /\ Done(r, "preVerification", m1, o1, c1,
                        "Rama actual es '" \o b \o "'. Debe estar en 'master' o 'main'")
                /\ UNCHANGED <<world, retries, releaseType>>
           ELSE
           LET o2 == Append(o1, Line("log", "Rama correcta: " \o b))
               c2 == Append(c1, "git status --porcelain")
           IN  IF gitStatus # {}
               THEN /\ Done(r, "preVerification", m1, o2, c2, "Hay cambios sin anadir")
                    /\ UNCHANGED <<world, retries, releaseType>>
               ELSE
               LET o3 == o2 \o <<Line("log", "Repositorio limpio"),
                                 Line("log", "Ejecutando npm pkg fix...")>>
                   c3 == Append(c2, "npm pkg fix")
                   mf == npmPkgFix(manifest)
               IN  /\ manifest' = mf
                   /\ modified' = IF mf # manifest THEN modified \cup {"package.json"}
                                  ELSE modified
                   /\ UNCHANGED <<releaseType, branch, staged, changelog, tags, annotated, commits,
                                  lastTagAt, remote, registry, ghRegistry, reportFile,
                                  reportWrites, retries>>
                   /\ IF ~versionRegexTest(mf.version)
                      THEN Done(r, "preVerification", m1, o3, c3,
                                "Version '" \o VStr(mf.version)
                                    \o "' no sigue formato semver X.Y.Z")
                      ELSE Done(r, "preVerification",
                                [m1 EXCEPT !.report.version = mf.version],
                                Append(o3, Line("log", "Version semver valida: "
                                                          \o VStr(mf.version))),
                                c3, NoError)

\* ------------------------------------------- 2. dependenciesAndTests
\* ci, test: whether npm ci and npm test exit 0
dependenciesAndTests(r) ==
    /\ pc[r] = "dependenciesAndTests"
    /\ \E ci \in BOOLEAN, test \in BOOLEAN :
         LET o1 == <<Line("log", "=== PASO 2: Dependencias y pruebas ==="),
                     Line("log", "Instalando dependencias...")>>
             o2 == Append(o1, Line("log", "Ejecutando tests..."))
             w == "Paquete sin tests configurados - continuando con advertencia"
         IN  IF ~ci
             THEN Done(r, "dependenciesAndTests", mgr[r], o1, <<Failed("npm ci")>>,
                       IF script = Current
                       THEN "Error instalando dependencias: " \o CommandFailed("npm ci")
                       ELSE CommandFailed("npm ci"))
             ELSE IF test
             THEN Done(r, "dependenciesAndTests", mgr[r],
                       Append(o2, Line("log", "Tests pasaron exitosamente")),
                       <<"npm ci", "npm test">>, NoError)
             ELSE Done(r, "dependenciesAndTests",
                       [warnMgr(mgr[r], w) EXCEPT
                          !.report.issues = Append(@, "Tests no configurados"),
                          !.report.solutions =
                             Append(@, "Se recomienda agregar tests antes del proximo release")],
                       warnCon(o2, w), <<"npm ci", Failed("npm test")>>, NoError)
    /\ UNCHANGED <<world, retries, releaseType>>

\* ----------------------------------------------------------- 3. build
\* scripts: whether package.json declares scripts.build (no step writes it);
\* ok: whether npm run build exits 0
build(r) ==
    /\ pc[r] = "build"
    /\ \E scripts \in BOOLEAN, ok \in BOOLEAN :
         LET o1 == <<Line("log", "=== PASO 3: Build ===")>>
         IN  IF ~scripts
             THEN /\ ok
                  /\ Done(r, "build", mgr[r],
                          Append(o1, Line("log", "No hay script de build definido - omitiendo")),
                          <<>>, NoError)
             ELSE IF ok
             THEN Done(r, "build", mgr[r],
                       o1 \o <<Line("log", "Ejecutando build..."),
                               Line("log", "Build completado")>>,
                       <<"npm run build">>, NoError)
             ELSE Done(r, "build", mgr[r],
                       Append(o1, Line("log", "Ejecutando build...")),
                       <<Failed("npm run build")>>,
                       IF script = Current
                       THEN "Error en build: " \o CommandFailed("npm run build")
                       ELSE CommandFailed("npm run build"))
    /\ UNCHANGED <<world, retries, releaseType>>

\* ------------------------------------------------------ 4. versioning
\* npm pkg get version, trimmed, quotes removed
npmPkgGetVersion == manifest.version

\* a git tag -l that lists a tag whatever the version
tagAlwaysListed(version) == TRUE

\* const existingTags = execSync(`git tag -l v${version}`).trim(); if (existingTags)
tagExists(version) == version \in tags

\* the older script: try { execSync(`git tag -l v${version}`) ... } catch { ... };
\* git tag -l exits 0 whether or not a tag matches, so the try branch is taken
tagExistsLegacy(version) == TRUE

existingTags(version) ==
    IF script = Current THEN tagExists(version) ELSE tagExistsLegacy(version)

\* type: the argument releaseType of run(), which this step alone reads
versioning(r) ==
    /\ pc[r] = "versioning"
    /\ \E type \in ReleaseTypes :
         LET currentVersion == npmPkgGetVersion
             m1 == [mgr[r] EXCEPT !.report.version = currentVersion]
             o1 == <<Line("log", "=== PASO 4: Versionado ===")>>
             c1 == <<"npm pkg get version", "git tag -l v" \o VStr(currentVersion)>>
         IN  IF existingTags(currentVersion)
             THEN /\ type = "patch"
                  /\ Done(r, "versioning", m1,
                          Append(o1, Line("log", "Usando version existente: "
                                             \o VStr(currentVersion) \o " (tag ya existe)")),
                          c1, NoError)
                  /\ UNCHANGED <<world, retries, releaseType>>
             ELSE LET newVersion == npmVersion(currentVersion, type)
                  IN  /\ releaseType' = Upd(releaseType, r, type)
                      /\ manifest' = [manifest EXCEPT !.version = newVersion]
                      /\ modified' = modified \cup {"package.json"}
                      /\ Done(r, "versioning",
                              [m1 EXCEPT !.report.version = newVersion],
                              o1 \o (IF script = Current
                                     THEN <<Line("log", "Incrementando version "
                                                \o type \o ": " \o VStr(currentVersion))>>
                                     ELSE <<>>)
                                 \o <<Line("log", "Version incrementada: "
                                              \o VStr(currentVersion) \o " -> "
                                              \o VStr(newVersion))>>,
                              c1 \o <<"npm version " \o type \o " --no-git-tag-version",
                                      "npm pkg get version">>,
                              NoError)
                      /\ UNCHANGED <<branch, staged, changelog, tags, annotated, commits,
                                     lastTagAt, remote, registry, ghRegistry, reportFile,
                                     reportWrites, retries>>

\* ------------------------------------------------- 5. updateChangelog
\* A line of text: h says whether it starts with '## [', t is the line.
TextLine(t) == [h |-> FALSE, t |-> t]
Heading(t) == [h |-> TRUE, t |-> t]

\* a + b for texts held as their lines (text.split('\n')): the last line of a
\* and the first line of b become one line
Cat(a, b) ==
    LET x == a[Len(a)]
        y == b[1]
        xy == [h |-> IF x.t = "" THEN y.h ELSE x.h, t |-> x.t \o y.t]
    IN  SubSeq(a, 1, Len(a) - 1) \o <<xy>> \o Tail(b)

\* lines.join('\n'), as the lines of the joined text
Join(lines) == IF lines = <<>> THEN <<TextLine("")>> ELSE lines

\* new Date().toISOString().split('T')[0]
today == "2025-09-18"

RECURSIVE Reverse(_)
Reverse(q) == IF q = <<>> THEN <<>> ELSE Append(Reverse(Tail(q)), Head(q))

\* git log <lastTag>..HEAD --oneline: the commits after the last tag, newest first
gitLogSinceLastTag == Reverse(SubSeq(commits, lastTagAt + 1, Len(commits)))

Files == <<"CHANGELOG.md", "package.json", "src/index.js">>

RECURSIVE JoinComma(_, _)
JoinComma(names, among) ==
    IF names = <<>> THEN ""
    ELSE LET rest == JoinComma(Tail(names), among)
         IN  IF Head(names) \notin among THEN rest
             ELSE IF rest = "" THEN Head(names)
             ELSE Head(names) \o ", " \o rest

\* the list changes of updateChangelog
changesSince(lastTag, log0, stagedFiles) ==
    IF ~lastTag THEN <<>>
    ELSE IF log0 # <<>> THEN [i \in 1..Len(log0) |-> TextLine("- " \o log0[i])]
    ELSE IF stagedFiles # {}
    THEN <<TextLine("- Cambios en archivos: " \o JoinComma(Files, stagedFiles))>>
    ELSE <<>>

\* an entry that prints the changes as they are, with no placeholder
newEntryNoPlaceholder(version, changes) ==
    <<Heading("## [" \o VStr(version) \o "] - " \o today), TextLine(""),
      TextLine("### Changed")>>
    \o changes \o <<TextLine(""), TextLine("")>>

\* const newEntry = `## [${version}] - ${today}\n\n### Changed\n${...}\n\n`
newEntry(version, changes) ==
    <<Heading("## [" \o VStr(version) \o "] - " \o today), TextLine(""),
      TextLine("### Changed")>>
    \o (IF changes = <<>> THEN <<TextLine("- Release automatico")>> ELSE changes)
    \o <<TextLine(""), TextLine("")>>

\* for (let i = 0; ...) if (lines[i].startsWith('## [')) { insertIndex = i; break }
insertIndex(lines) ==
    IF \E i \in 1..Len(lines) : lines[i].h
    THEN (CHOOSE i \in 1..Len(lines) : lines[i].h /\ \A j \in 1..(i - 1) : ~lines[j].h) - 1
    ELSE 0

\* lines.slice(0, insertIndex).join('\n') + '\n' + newEntry + lines.slice(insertIndex).join('\n')
updatedChangelog(lines, entry) ==
    LET i == insertIndex(lines)
    IN  Cat(Cat(Cat(Join(SubSeq(lines, 1, i)), <<TextLine(""), TextLine("")>>), entry),
            Join(SubSeq(lines, i + 1, Len(lines))))

\* fs.existsSync('CHANGELOG.md') ? fs.readFileSync(...) : '', then split('\n')
changelogLines == IF changelog = NoFile THEN <<TextLine("")>> ELSE changelog

\* a write after which git status does not list the file
writeFileSyncUnlisted(old, new) == {}

\* fs.writeFileSync('CHANGELOG.md', updatedChangelog): git status lists the file
\* when its text is no longer what it was
writeFileSync(old, new) == IF new # old THEN {"CHANGELOG.md"} ELSE {}

updateChangelog(r) ==
    /\ pc[r] = "updateChangelog"
    /\ LET lastTag == tags # {}
           w1 == "No se encontraron tags anteriores"
           w2 == "No se encontraron cambios desde el ultimo tag"
           m1 == IF lastTag THEN mgr[r] ELSE warnMgr(mgr[r], w1)
           o1 == <<Line("log", "=== PASO 5: CHANGELOG ===")>>
                 \o (IF lastTag THEN <<>> ELSE <<Line("warn", w1)>>)
           log0 == IF lastTag THEN gitLogSinceLastTag ELSE <<>>
           changes == changesSince(lastTag, log0, staged)
           m2 == IF changes = <<>> THEN warnMgr(m1, w2) ELSE m1
           o2 == o1 \o (IF changes = <<>> THEN <<Line("warn", w2)>> ELSE <<>>)
           c == <<IF lastTag THEN "git describe --tags --abbrev=0"
                   ELSE Failed("git describe --tags --abbrev=0")>>
                \o (IF lastTag THEN <<"git log --oneline">> ELSE <<>>)
                \o (IF lastTag /\ log0 = <<>> THEN <<"git diff --cached --name-only">> ELSE <<>>)
       IN  /\ changelog' = updatedChangelog(changelogLines,
                                            newEntry(mgr[r].report.version, changes))
           /\ modified' = modified \cup writeFileSync(changelog, changelog')
           /\ Done(r, "updateChangelog", m2,
                   Append(o2, Line("log", "CHANGELOG.md actualizado")), c, NoError)
    /\ UNCHANGED <<releaseType, branch, staged, manifest, tags, annotated, commits, lastTagAt, remote,
                   registry, ghRegistry, reportFile, reportWrites, retries>>

\* ---------------------------------------------------- 6. commitAndTag
\* git rev-parse HEAD
HeadSha(log0) == "sha" \o ToString(Len(log0))

\* How git commit -m ends: done, refused with a message naming pre-commit, or
\* refused otherwise.
CommitOutcomes == {"ok", "pre-commit", "failed"}

\* error.message of a failed git commit: one that names the pre-commit hook, and
\* one that does not
PreCommitMessage == "error.message: pre-commit hook not found"
OtherMessage == "error.message: Command failed"

\* a test that takes every failure for a missing hook
includesPreCommitAlways(message) == TRUE

\* error.message.includes('pre-commit')
includesPreCommit(message) == message = PreCommitMessage

commitAndTag(r) ==
    /\ pc[r] = "commitAndTag"
    /\ \E commit \in CommitOutcomes, noVerify \in BOOLEAN :
         LET version == mgr[r].report.version
             index == staged \cup modified              \* git add .
             commitMessage == "chore(release): v" \o VStr(version)
             o1 == <<Line("log", "=== PASO 6: Commit y tag ===")>>
             c1 == <<"git add .", "git status --porcelain">>
             cmd == "git commit -m " \o commitMessage
             cmdNoVerify == "git commit --no-verify -m " \o commitMessage
             w == "Hook pre-commit no encontrado - usando --no-verify"
             message == IF commit = "pre-commit" THEN PreCommitMessage ELSE OtherMessage
             retry == commit # "ok" /\ includesPreCommit(message)
             committed == commit = "ok" \/ (retry /\ noVerify)
             m2 == IF commit = "ok" THEN mgr[r]
                   ELSE IF ~retry THEN mgr[r]
                   ELSE IF ~noVerify THEN warnMgr(mgr[r], w)
                   ELSE [warnMgr(mgr[r], w) EXCEPT
                           !.report.issues = Append(@, "Hooks de pre-commit no ejecutados"),
                           !.report.solutions =
                              Append(@, "Se recomienda ejecutar hooks de calidad manualmente")]
             o2 == IF retry THEN warnCon(o1, w) ELSE o1
             c2 == c1 \o (CASE commit = "ok" -> <<cmd>>
                          [] ~retry -> <<Failed(cmd), message>>
                          [] OTHER -> <<Failed(cmd), message,
                                        IF noVerify THEN cmdNoVerify
                                        ELSE Failed(cmdNoVerify)>>)
             exists == existingTags(version)
         IN  /\ modified' = {}
             /\ IF index = {}
                THEN /\ commit = "ok" /\ noVerify
                     /\ staged' = index
                     /\ Done(r, "commitAndTag", mgr[r],
                             Append(o1, Line("log", "No hay cambios para commitear")),
                             c1, NoError)
                     /\ UNCHANGED <<commits, tags, annotated, lastTagAt>>
                ELSE IF ~committed
                THEN /\ retry \/ noVerify
                     /\ staged' = index
                     /\ Done(r, "commitAndTag", m2, o2, c2,
                             CommandFailed(IF ~retry THEN cmd ELSE cmdNoVerify))
                     /\ UNCHANGED <<commits, tags, annotated, lastTagAt>>
                ELSE /\ retry \/ noVerify
                     /\ staged' = {}
                     /\ commits' = Append(commits, commitMessage)
                     /\ IF exists
                        THEN /\ UNCHANGED <<tags, annotated, lastTagAt>>
                             /\ Done(r, "commitAndTag", m2,
                                     o2 \o <<Line("log", "Tag v" \o VStr(version)
                                                  \o " ya existe - omitiendo creacion"),
                                             Line("log", "Commit procesado: " \o commitMessage)>>,
                                     Append(c2, "git tag -l v" \o VStr(version)), NoError)
                        ELSE /\ tags' = tags \cup {version}
                             /\ annotated' = annotated \cup {version}
                             /\ lastTagAt' = Len(commits) + 1
                             /\ Done(r, "commitAndTag", m2,
                                     o2 \o <<Line("log", "Tag creado: v" \o VStr(version)),
                                             Line("log", "Commit procesado: " \o commitMessage)>>,
                                     c2 \o <<"git tag -l v" \o VStr(version),
                                             "git tag -a v" \o VStr(version)>>, NoError)
    /\ UNCHANGED <<releaseType, branch, manifest, changelog, remote, registry, ghRegistry, reportFile,
                   reportWrites, retries>>

\* ------------------------------------------------------------ 7. push
\* git push origin ${this.currentBranch}; git push --tags; any failure is rethrown
push(r) ==
    /\ pc[r] = "push"
    /\ script = Current
    /\ \E pushBranch \in BOOLEAN, pushTags \in BOOLEAN :
         LET b == mgr[r].currentBranch
             o1 == <<Line("log", "=== PASO 7: Push ===")>>
             c1 == <<"git push origin " \o b>>
             o2 == Append(o1, Line("log", "Push de commits completado"))
             c2 == Append(c1, "git push --tags")
             pushed == [remote EXCEPT !.head[b] = Len(commits)]
         IN  IF ~pushBranch
             THEN /\ pushTags
                  /\ remote' = remote
                  /\ Done(r, "push", mgr[r], o1, <<Failed("git push origin " \o b)>>,
                          "Error en push: " \o CommandFailed("git push origin " \o b))
             ELSE IF ~pushTags
             THEN /\ remote' = pushed
                  /\ Done(r, "push", mgr[r], o2, Append(c1, Failed("git push --tags")),
                          "Error en push: " \o CommandFailed("git push --tags"))
             ELSE /\ remote' = [pushed EXCEPT !.tags = @ \cup tags]
                  /\ Done(r, "push", [mgr[r] EXCEPT !.report.commitSha = HeadSha(commits)],
                          Append(o2, Line("log", "Push de tags completado")),
                          Append(c2, "git rev-parse HEAD"), NoError)
    /\ UNCHANGED <<releaseType, branch, modified, staged, manifest, changelog, tags, annotated, commits,
                   lastTagAt, registry, ghRegistry, reportFile, reportWrites, retries>>

\* The older push(): pushes master, and only when HEAD has commits origin/master
\* lacks; a failing git push --tags is logged and nothing more.
pushLegacy(r) ==
    /\ pc[r] = "push"
    /\ script = Legacy
    /\ \E pushBranch \in BOOLEAN, pushTags \in BOOLEAN :
         LET localCommits == Len(commits) > remote.head["master"]
             o1 == <<Line("log", "=== PASO 7: Push ===")>>
             c1 == <<"git rev-list HEAD ^origin/master">>
             \* git push origin master needs a local branch master
             ok == pushBranch /\ branch = "master"
             o2 == IF localCommits
                   THEN Append(o1, Line("log", "Push de commits completado"))
                   ELSE Append(o1, Line("log", "No hay commits nuevos para pushear"))
             c2 == (IF localCommits THEN Append(c1, "git push origin master") ELSE c1)
                   \o <<IF pushTags THEN "git push --tags" ELSE Failed("git push --tags")>>
             pushed == IF localCommits THEN [remote EXCEPT !.head["master"] = Len(commits)]
                       ELSE remote
         IN  IF localCommits /\ ~ok
             THEN /\ pushTags
                  /\ remote' = remote
                  /\ Done(r, "push", mgr[r], o1, Append(c1, Failed("git push origin master")),
                          CommandFailed("git push origin master"))
             ELSE /\ localCommits \/ pushBranch
                  /\ remote' = IF pushTags THEN [pushed EXCEPT !.tags = @ \cup tags] ELSE pushed
                  /\ Done(r, "push", [mgr[r] EXCEPT !.report.commitSha = HeadSha(commits)],
                          Append(o2, Line("log", IF pushTags THEN "Push de tags completado"
                                                 ELSE "No hay tags nuevos para pushear")),
                          Append(c2, "git rev-parse HEAD"), NoError)
    /\ UNCHANGED <<releaseType, branch, modified, staged, manifest, changelog, tags, annotated, commits,
                   lastTagAt, registry, ghRegistry, reportFile, reportWrites, retries>>

\* ---------------------------------------------------- 8. publishToNpm
\* a token check that lets every environment through
tokenNeverMissing(token) == FALSE

\* if (!process.env.NPM_TOKEN)
tokenMissing(token) == token \in {Undefined, ""}

\* The environment of the twin run: the same, but for the value of a token that is set.
TwinToken(token) == IF tokenMissing(token) THEN token ELSE "npm_SECRET_B"

npmUrl ==
    IF script = Current THEN "https://www.npmjs.com/package/<name>"
    ELSE "https://www.npmjs.com/package/create-python-modern"

\* a publishToNpm that prints the token it read
publishToNpmOutLogsToken(token, published) ==
    LET o1 == <<Line("log", "=== PASO 8: Publicacion en npmjs ==="),
                Line("log", "NPM_TOKEN=" \o token)>>
    IN  IF token \in {Undefined, ""}
        THEN [out |-> o1, err |-> "Variable de entorno NPM_TOKEN no configurada",
              called |-> FALSE, url |-> ""]
        ELSE IF published
        THEN [out |-> o1, err |-> NoError, called |-> TRUE, url |-> npmUrl]
        ELSE [out |-> o1, err |-> CommandFailed("npm publish --access public"),
              called |-> TRUE, url |-> ""]

\* What publishToNpm prints and throws in an environment with this token, when
\* npm publish ends as published says.
publishToNpmOut(token, published) ==
    LET o1 == <<Line("log", "=== PASO 8: Publicacion en npmjs ===")>>
    IN  IF tokenMissing(token)
        THEN [out |-> o1, err |-> "Variable de entorno NPM_TOKEN no configurada",
              called |-> FALSE, url |-> ""]
        ELSE IF published
        THEN [out |-> Append(o1, Line("log", "Publicacion en npm completada")),
              err |-> NoError, called |-> TRUE, url |-> npmUrl]
        ELSE [out |-> o1,
              err |-> IF script = Current
                      THEN "Error publicando en npm: "
                               \o CommandFailed("npm publish --access public")
                      ELSE CommandFailed("npm publish --access public"),
              called |-> TRUE, url |-> ""]

publishToNpm(r) ==
    /\ pc[r] = "publishToNpm"
    /\ \E published \in BOOLEAN :
         LET p == publishToNpmOut(env, published)
             q == publishToNpmOut(TwinToken(env), published)
             ok == p.called /\ published
         IN  /\ p.called /\ published => manifest.version \notin registry
             /\ ~p.called => published
             /\ registry' = IF ok THEN registry \cup {manifest.version} ELSE registry
             /\ Settle(r, "publishToNpm",
                       IF ok THEN [mgr[r] EXCEPT !.report.registryUrls = Append(@, p.url)]
                       ELSE mgr[r],
                       p.out,
                       IF ~p.called THEN <<>>
                       ELSE IF published THEN <<"npm publish --access public">>
                       ELSE <<Failed("npm publish --access public")>>,
                       p.err, q.out, q.err, q.called = p.called /\ q.url = p.url)
    /\ UNCHANGED <<releaseType, branch, modified, staged, manifest, changelog, tags, annotated, commits,
                   lastTagAt, remote, ghRegistry, reportFile, reportWrites, retries>>

\* ------------------------------------------------- 9. publishToGitHub
\* package.json's name and the file .npmrc, which no step writes:
\* the name has no scope; or it has one and .npmrc is missing, lacks
\* npm.pkg.github.com, or holds it
GitHubSetups == {"unscoped", "no .npmrc", "no host", "host"}

ghUrl == "https://github.com/jhonma82/create-python-modern/packages"
ghCmd == "npm publish --registry=https://npm.pkg.github.com"

publishToGitHub(r) ==
    /\ pc[r] = "publishToGitHub"
    /\ script = Current
    /\ \E setup \in GitHubSetups, published \in BOOLEAN :
         LET o1 == <<Line("log", "=== PASO 9: Publicacion en GitHub Packages ===")>>
             soft(w, issue, solution) ==
                 Done(r, "publishToGitHub",
                      [warnMgr(mgr[r], w) EXCEPT !.report.issues = Append(@, issue),
                                                 !.report.solutions = Append(@, solution)],
                      warnCon(o1, w), IF setup = "host" THEN <<Failed(ghCmd)>> ELSE <<>>, NoError)
         IN  /\ setup # "host" => published
             /\ ghRegistry' = IF setup = "host" /\ published
                              THEN ghRegistry \cup {manifest.version} ELSE ghRegistry
             /\ CASE setup = "unscoped" ->
                       Done(r, "publishToGitHub",
                            warnMgr(mgr[r], "Paquete sin scope - omitiendo GitHub Packages segun instrucciones"),
                            warnCon(o1, "Paquete sin scope - omitiendo GitHub Packages segun instrucciones"),
                            <<>>, NoError)
                  [] setup = "no .npmrc" ->
                       soft("Archivo .npmrc no encontrado para GitHub Packages",
                            "Archivo .npmrc no encontrado",
                            "Crear .npmrc con configuracion de GitHub Packages")
                  [] setup = "no host" ->
                       soft("Archivo .npmrc no configurado correctamente para GitHub Packages",
                            ".npmrc sin configuracion de GitHub Packages",
                            "Agregar configuracion de registry en .npmrc")
                  [] setup = "host" /\ published ->
                       Done(r, "publishToGitHub",
                            [mgr[r] EXCEPT !.report.registryUrls = Append(@, ghUrl)],
                            Append(o1, Line("log", "Publicacion en GitHub Packages completada")),
                            <<ghCmd>>, NoError)
                  [] OTHER ->
                       soft("Error publicando en GitHub Packages: " \o CommandFailed(ghCmd),
                            "Error en publicacion de GitHub Packages",
                            "Verificar configuracion de autenticacion de GitHub")
    /\ UNCHANGED <<releaseType, branch, modified, staged, manifest, changelog, tags, annotated, commits,
                   lastTagAt, remote, registry, reportFile, reportWrites, retries>>

\* The older publishToGitHub(): publishes whenever .npmrc exists, and lets a
\* failing publish escape.
publishToGitHubLegacy(r) ==
    /\ pc[r] = "publishToGitHub"
    /\ script = Legacy
    /\ \E setup \in GitHubSetups, published \in BOOLEAN :
         LET o1 == <<Line("log", "=== PASO 9: Publicacion en GitHub Packages ===")>>
             tried == setup \in {"no host", "host"}
         IN  /\ ~tried => published
             /\ ghRegistry' = IF tried /\ published
                              THEN ghRegistry \cup {manifest.version} ELSE ghRegistry
             /\ CASE setup = "unscoped" ->
                       Done(r, "publishToGitHub",
                            warnMgr(mgr[r], "Paquete sin scope - omitiendo GitHub Packages"),
                            warnCon(o1, "Paquete sin scope - omitiendo GitHub Packages"),
                            <<>>, NoError)
                  [] setup = "no .npmrc" ->
                       Done(r, "publishToGitHub",
                            warnMgr(mgr[r], "Archivo .npmrc no encontrado para GitHub Packages"),
                            warnCon(o1, "Archivo .npmrc no encontrado para GitHub Packages"),
                            <<>>, NoError)
                  [] tried /\ published ->
                       Done(r, "publishToGitHub",
                            [mgr[r] EXCEPT !.report.registryUrls = Append(@, ghUrl)],
                            Append(o1, Line("log", "Publicacion en GitHub Packages completada")),
                            <<ghCmd>>, NoError)
                  [] OTHER ->
                       Done(r, "publishToGitHub", mgr[r], o1, <<Failed(ghCmd)>>, CommandFailed(ghCmd))
    /\ UNCHANGED <<releaseType, branch, modified, staged, manifest, changelog, tags, annotated, commits,
                   lastTagAt, remote, registry, reportFile, reportWrites, retries>>

\* ---------------------------------------------------- 10. verification
\* the version the registry had before any run published
OldVersion == Ver(<<0, 9, 0>>, "")

\* What npm view <name> version can print: a version the registry holds (the
\* newest may not have propagated yet).
\* npm view exits 0 and prints nothing
Empty == Ver(<<>>, "")
viewAnswers == registry \cup {OldVersion, Empty}

viewCmd == "npm view <name> version"
infoCmd == "npm view <name>"

\* what execSync returns: the trimmed output of a command that exited 0
stdout(answer) == "stdout: " \o VStr(answer)

\* One pass through the while loop of verification(): answer is what npm view
\* printed, or Null when the command failed; info says whether the second
\* npm view succeeded.
verification(r) ==
    /\ pc[r] = "verification"
    /\ script = Current
    /\ \E answer \in viewAnswers \cup {Null}, info \in BOOLEAN :
         LET version == mgr[r].report.version
             o1 == IF retries[r] = MaxRetries
                   THEN <<Line("log", "=== PASO 10: Verificacion ===")>> ELSE <<>>
             left == retries[r] - 1
             w == "No se pudo obtener informacion completa del paquete: "
                      \o CommandFailed(infoCmd)
         IN  IF answer = Null
             THEN /\ info
                  /\ retries' = Upd(retries, r, left)
                  /\ IF left > 0
                     THEN \* await new Promise(resolve => setTimeout(resolve, 5000))
                          /\ console' = Upd(console, r, console[r] \o o1 \o
                                 <<Line("log", "Esperando propagacion en npm... ("
                                           \o ToString(MaxRetries - left) \o "/3)")>>)
                          /\ twinConsole' = Upd(twinConsole, r, twinConsole[r] \o o1 \o
                                 <<Line("log", "Esperando propagacion en npm... ("
                                           \o ToString(MaxRetries - left) \o "/3)")>>)
                          /\ calls' = Upd(calls, r, calls[r] \o <<Failed(viewCmd), "setTimeout 5000">>)
                          /\ UNCHANGED <<pc, mgr, thrown, exit, twinSame, failedAt, inputs>>
                     ELSE Done(r, "verification", mgr[r], o1, <<Failed(viewCmd)>>,
                               "No se pudo verificar la publicacion en npm: "
                                   \o CommandFailed(viewCmd))
             ELSE /\ retries' = retries
                  /\ IF answer # version
                     THEN /\ info
                          /\ Done(r, "verification", mgr[r], o1, <<viewCmd, stdout(answer)>>,
                                  "Version en npm (" \o VStr(answer)
                                      \o ") no coincide con version local ("
                                      \o VStr(version) \o ")")
                     ELSE IF info
                     THEN Done(r, "verification",
                               [mgr[r] EXCEPT !.report.packageInfo = "<npm view>"],
                               Append(o1, Line("log", "Version verificada en npm: "
                                                         \o VStr(answer))),
                               <<viewCmd, stdout(answer), infoCmd>>, NoError)
                     ELSE Done(r, "verification",
                               [warnMgr(mgr[r], w) EXCEPT
                                  !.report.packageInfo = "Informacion no disponible"],
                               warnCon(Append(o1, Line("log", "Version verificada en npm: "
                                                                 \o VStr(answer))), w),
                               <<viewCmd, stdout(answer), Failed(infoCmd)>>, NoError)
    /\ UNCHANGED <<world, releaseType>>

\* The older verification(): one npm view, no retry; any failure escapes.
verificationLegacy(r) ==
    /\ pc[r] = "verification"
    /\ script = Legacy
    /\ \E answer \in viewAnswers \cup {Null}, info \in BOOLEAN :
         LET version == mgr[r].report.version
             o1 == <<Line("log", "=== PASO 10: Verificacion ===")>>
         IN  IF answer = Null
             THEN /\ info
                  /\ Done(r, "verification", mgr[r], o1, <<Failed(viewCmd)>>, CommandFailed(viewCmd))
             ELSE IF answer # version
             THEN /\ info
                  /\ Done(r, "verification", mgr[r], o1, <<viewCmd, stdout(answer)>>,
                          "Version en npm (" \o VStr(answer)
                              \o ") no coincide con version local (" \o VStr(version) \o ")")
             ELSE IF info
             THEN Done(r, "verification",
                       [mgr[r] EXCEPT !.report.packageInfo = "<npm view>"],
                       Append(o1, Line("log", "Version verificada en npm: " \o VStr(answer))),
                       <<viewCmd, stdout(answer), infoCmd>>, NoError)
             ELSE Done(r, "verification", mgr[r],
                       Append(o1, Line("log", "Version verificada en npm: " \o VStr(answer))),
                       <<viewCmd, stdout(answer), Failed(infoCmd)>>, CommandFailed(infoCmd))
    /\ UNCHANGED <<world, retries, releaseType>>

\* ------------------------------------------------- 11. generateReport
\* this.report.status = this.errors.length > 0 ? 'failed' : 'completed'
reportStatus(m) == IF Len(m.errors) > 0 THEN "failed" ELSE "completed"

\* an issues list that leaves the warnings out
reportIssuesErrorsOnly(m) == m.errors

\* this.report.issues = [...this.errors, ...this.warnings]
reportIssues(m) == m.errors \o m.warnings

\* the fields report.md prints
reportContent(rep) ==
    [status |-> rep.status, version |-> rep.version, commitSha |-> rep.commitSha,
     registryUrls |-> rep.registryUrls, issues |-> rep.issues,
     solutions |-> rep.solutions,
     packageInfo |-> IF rep.packageInfo = "null" THEN "No disponible" ELSE rep.packageInfo]

\* the lines run() logs after the report of a run that threw nothing
runSuccessOut(rep) ==
    <<Line("log", "Proceso de liberacion completado exitosamente!"),
      Line("log", "Version publicada: " \o VStr(rep.version)),
      Line("log", "Commit: " \o rep.commitSha)>>
    \o (IF script = Current /\ rep.registryUrls # <<>>
        THEN <<Line("log", "Paquete disponible en:")>>
             \o [i \in 1..Len(rep.registryUrls) |-> Line("log", "   - " \o rep.registryUrls[i])]
        ELSE <<>>)

\* the value an async function resolves to when its body ends with no return statement
UndefinedValue == [undefined |-> TRUE]

\* what run() returns on the try path: its last statements are this.log(...) calls
\* and the block ends with no return statement
runReturnValue(m) == UndefinedValue

\* a command line entry whose catch does not call process.exit(1)
exitCodeAlwaysZero(e) == IF e = "running" THEN -1 ELSE 0

\* the exit code of the process: run(releaseType).catch(error => { ...; process.exit(1) }),
\* and 0 when the promise resolves; -1 stands for a process still running
exitCode(e) == CASE e = "returned" -> 0 [] e = "rejected" -> 1 [] OTHER -> -1

\* generateReport() and what run() does after it: on the try path it logs and
\* returns; on the catch path it rethrows, and the command line's catch prints the
\* message and exits with code 1.
generateReport(r) ==
    /\ pc[r] = "generateReport"
    /\ LET m == [mgr[r] EXCEPT !.report.status = reportStatus(mgr[r]),
                               !.report.issues = reportIssues(mgr[r])]
           o1 == (IF thrown[r] = NoError THEN debugOut("generateReport") ELSE <<>>)
                 \o <<Line("log", "=== PASO 11: Generacion de reporte ==="),
                      Line("log", "Reporte generado: report.md")>>
           o2 == IF thrown[r] = NoError THEN o1 \o runSuccessOut(m.report)
                 ELSE Append(o1, Line("error", "Proceso de liberacion fallido: " \o thrown[r]))
       IN  /\ mgr' = Upd(mgr, r, m)
           /\ reportFile' = reportContent(m.report)
           /\ reportWrites' = Upd(reportWrites, r, reportWrites[r] + 1)
           /\ console' = Upd(console, r, console[r] \o o2)
           /\ twinConsole' = Upd(twinConsole, r, twinConsole[r] \o o2)
           /\ calls' = Upd(calls, r, Append(calls[r], "write report.md"))
           /\ exit' = Upd(exit, r, IF thrown[r] = NoError THEN "returned" ELSE "rejected")
           /\ pc' = Upd(pc, r, "done")
    /\ UNCHANGED <<releaseType, branch, modified, staged, manifest, changelog, tags, annotated, commits,
                   lastTagAt, remote, registry, ghRegistry, retries, thrown, twinSame, failedAt,
                   inputs>>

\* ------------------------------------------------------ specification
\* package.json's version at the start: 1.0.0, or 1.0.0-beta, which is not X.Y.Z
InitVersions == {Ver(<<1, 0, 0>>, ""), Ver(<<1, 0, 0>>, "-beta")}

\* the tags a repository may hold at the start: none, v1.0.0, or v1.0.1
InitTagSets == {{}, {Ver(<<1, 0, 0>>, "")}, {Ver(<<1, 0, 1>>, "")}}

InitChangelogs ==
    {<<TextLine("# Changelog"), TextLine(""), Heading("## [1.0.0] - 2025-09-14"),
       TextLine(""), TextLine("- first"), TextLine("")>>}

InitWorld ==
    /\ branch \in Branches
    /\ \E dirty \in {"clean", "modified", "staged"} :
         /\ modified = IF dirty = "modified" THEN {"src/index.js"} ELSE {}
         /\ staged = IF dirty = "staged" THEN {"src/index.js"} ELSE {}
    /\ manifest \in [version : InitVersions, normalized : BOOLEAN]
    /\ changelog \in InitChangelogs
    /\ tags \in InitTagSets
    /\ annotated \in {{}, tags}
    /\ \E n \in 0..MaxInitCommits :
         /\ commits = [i \in 1..n |-> "feat: change " \o ToString(i)]
         /\ lastTagAt = 0
    /\ remote = [head |-> [b \in Branches |-> IF b = branch THEN Len(commits) ELSE -1],
                 tags |-> tags]
    /\ registry = {}
    /\ ghRegistry = {}
    /\ reportFile = NoReport
    /\ start = [branch |-> branch, modified |-> modified, staged |-> staged,
                manifest |-> manifest, changelog |-> changelog, tags |-> tags,
                annotated |-> annotated, commits |-> commits, remote |-> remote,
                registry |-> registry, ghRegistry |-> ghRegistry]

InitRuns(rs) ==
    /\ runs = rs
    /\ script \in Scripts
    /\ env \in Tokens
    /\ releaseType = [r \in rs |-> "<unread>"]
    /\ reportWrites = [r \in rs |-> 0]
    /\ pc = [r \in rs |-> "preVerification"]
    /\ mgr = [r \in rs |-> constructor]
    /\ retries = [r \in rs |-> MaxRetries]
    /\ console = [r \in rs |-> <<>>]
    /\ twinConsole = [r \in rs |-> <<>>]
    /\ twinSame = [r \in rs |-> TRUE]
    /\ calls = [r \in rs |-> <<>>]
    /\ thrown = [r \in rs |-> NoError]
    /\ exit = [r \in rs |-> "running"]
    /\ failedAt = [r \in rs |-> "none"]

Init == InitWorld /\ InitRuns({1})

\* Some run takes its next step.
PreVerification == \E r \in runs : preVerification(r)
DependenciesAndTests == \E r \in runs : dependenciesAndTests(r)
Build == \E r \in runs : build(r)
Versioning == \E r \in runs : versioning(r)
UpdateChangelog == \E r \in runs : updateChangelog(r)
CommitAndTag == \E r \in runs : commitAndTag(r)
Push == \E r \in runs : push(r)
PushLegacy == \E r \in runs : pushLegacy(r)
PublishToNpm == \E r \in runs : publishToNpm(r)
PublishToGitHub == \E r \in runs : publishToGitHub(r)
PublishToGitHubLegacy == \E r \in runs : publishToGitHubLegacy(r)
Verification == \E r \in runs : verification(r)
VerificationLegacy == \E r \in runs : verificationLegacy(r)
GenerateReport == \E r \in runs : generateReport(r)

Next ==
    \/ PreVerification
    \/ DependenciesAndTests
    \/ Build
    \/ Versioning
    \/ UpdateChangelog
    \/ CommitAndTag
    \/ Push
    \/ PushLegacy
    \/ PublishToNpm
    \/ PublishToGitHub
    \/ PublishToGitHubLegacy
    \/ Verification
    \/ VerificationLegacy
    \/ GenerateReport

Spec == Init /\ [][Next]_vars

\* ------------------------------------------- runs over any CHANGELOG.md
\* the lines a CHANGELOG.md is made of: a title, an empty line, a version heading,
\* an entry
ChangelogLines ==
    {TextLine("# Changelog"), TextLine(""), Heading("## [1.0.0] - 2025-09-14"),
     TextLine("- first")}

\* no file, or any text of at most MaxLines lines (the empty text is one empty line)
Changelogs == {NoFile} \cup UNION {[1..n -> ChangelogLines] : n \in 1..MaxLines}

\* a clean master with a valid version, no tag and no commit, and any CHANGELOG.md
InitWorldChangelog ==
    /\ branch = "master"
    /\ modified = {} /\ staged = {}
    /\ manifest = [version |-> Ver(<<1, 0, 0>>, ""), normalized |-> TRUE]
    /\ changelog \in Changelogs
    /\ tags = {}
    /\ annotated = {}
    /\ commits = <<>>
    /\ lastTagAt = 0
    /\ remote = [head |-> [b \in Branches |-> IF b = branch THEN Len(commits) ELSE -1],
                 tags |-> tags]
    /\ registry = {}
    /\ ghRegistry = {}
    /\ reportFile = NoReport
    /\ start = [branch |-> branch, modified |-> modified, staged |-> staged,
                manifest |-> manifest, changelog |-> changelog, tags |-> tags,
                annotated |-> annotated, commits |-> commits, remote |-> remote,
                registry |-> registry, ghRegistry |-> ghRegistry]

InitChangelog == InitWorldChangelog /\ InitRuns({1}) /\ env = "npm_SECRET_A"

SpecChangelog == InitChangelog /\ [][Next]_vars

\* ------------------------------------------------ two runs at once
\* a clean master at 1.0.0 with no tag, on which two managers of the current
\* script are started
InitWorldConcurrent ==
    /\ branch = "master"
    /\ modified = {} /\ staged = {}
    /\ manifest = [version |-> Ver(<<1, 0, 0>>, ""), normalized |-> TRUE]
    /\ changelog \in InitChangelogs
    /\ tags = {}
    /\ annotated = {}
    /\ commits = <<>>
    /\ lastTagAt = 0
    /\ remote = [head |-> [b \in Branches |-> IF b = branch THEN Len(commits) ELSE -1],
                 tags |-> tags]
    /\ registry = {}
    /\ ghRegistry = {}
    /\ reportFile = NoReport
    /\ start = [branch |-> branch, modified |-> modified, staged |-> staged,
                manifest |-> manifest, changelog |-> changelog, tags |-> tags,
                annotated |-> annotated, commits |-> commits, remote |-> remote,
                registry |-> registry, ghRegistry |-> ghRegistry]

InitConcurrent ==
    InitWorldConcurrent /\ InitRuns({1, 2}) /\ script = Current /\ env = "npm_SECRET_A"

\* The surroundings of the two runs: both are started as `release patch`, and
\* npm ci, npm test, the build, the commit, the pushes, the GitHub publish and
\* npm info succeed. The working tree, the tags, npm publish and npm view answer
\* by what the two runs have done to them.
Steady ==
    \A r \in runs :
        /\ releaseType[r] \in {"<unread>", "patch"}
        /\ \A k \in {"npm ci", "npm test", "npm run build", "git push origin master",
                     "git push --tags", ghCmd, infoCmd} : Failed(k) \notin Range(calls[r])
        /\ PreCommitMessage \notin Range(calls[r])
        /\ OtherMessage \notin Range(calls[r])

\* Either run takes its next step whenever it is at one: no step waits for, or
\* looks at, the other run.
NextConcurrent ==
    \/ PreVerification /\ Steady'
    \/ DependenciesAndTests /\ Steady'
    \/ Build /\ Steady'
    \/ Versioning /\ Steady'
    \/ UpdateChangelog /\ Steady'
    \/ CommitAndTag /\ Steady'
    \/ Push /\ Steady'
    \/ PublishToNpm /\ Steady'
    \/ PublishToGitHub /\ Steady'
    \/ Verification /\ Steady'
    \/ GenerateReport /\ Steady'

SpecConcurrent == InitConcurrent /\ [][NextConcurrent]_vars

\* -------------------------------------------------------------------
\* Properties
\* -------------------------------------------------------------------
\* the step of run r that is enabled, if any
RunStep(r) ==
    \/ preVerification(r) \/ dependenciesAndTests(r) \/ build(r) \/ versioning(r)
    \/ updateChangelog(r) \/ commitAndTag(r) \/ push(r) \/ pushLegacy(r)
    \/ publishToNpm(r) \/ publishToGitHub(r) \/ publishToGitHubLegacy(r)
    \/ verification(r) \/ verificationLegacy(r) \/ generateReport(r)

Ended(r) == pc[r] = "done"
HardFailure(r) == thrown[r] # NoError
Issued(r, cmd) == cmd \in Range(calls[r]) \/ Failed(cmd) \in Range(calls[r])

\* C1: every run writes report.md exactly once, and has written it when run()
\* returns or rethrows, whether the steps all succeeded or one of them threw:
\* no run has written it before it ends, a run that ended wrote it once, and a run
\* that has not ended can always take its next step.
C1_ReportExactlyOnce ==
    \A r \in runs :
        /\ reportWrites[r] = (IF Ended(r) THEN 1 ELSE 0)
        /\ (exit[r] # "running") <=> Ended(r)
        /\ ~Ended(r) => ENABLED RunStep(r)

\* a run that threw in some step has ended, with its report written
C1_Witness ==
    \E r \in runs : Ended(r) /\ HardFailure(r) /\ exit[r] = "rejected" /\ reportWrites[r] = 1

\* C2 (as claimed): the report says failed exactly when a step of the run threw.
C2_StatusFailedIffHardFailure ==
    \A r \in runs :
        Ended(r) => (mgr[r].report.status = "failed" <=> HardFailure(r))
                    /\ reportFile.status = mgr[r].report.status

\* the ten steps, in the order of the spec
StepOrder ==
    <<"preVerification", "dependenciesAndTests", "build", "versioning", "updateChangelog",
      "commitAndTag", "push", "publishToNpm", "publishToGitHub", "verification">>

\* C3: run() starts at pre-verification; a step is followed by the next of the ten
\* in the fixed order, and only when it threw nothing; a step that throws is
\* followed by report generation alone, and so is the tenth step.
C3_StepsInOrder ==
    /\ \A r \in runs : pc[r] = StepOrder[1]
    /\ [][\A r \in runs :
            pc'[r] # pc[r] =>
               \/ /\ \E j \in 1..9 : pc[r] = StepOrder[j] /\ pc'[r] = StepOrder[j + 1]
                  /\ ~HardFailure(r)'
               \/ /\ pc[r] \in Range(StepOrder) /\ pc'[r] = "generateReport"
                  /\ HardFailure(r)' \/ pc[r] = StepOrder[10]
               \/ pc[r] = "generateReport" /\ pc'[r] = "done"]_vars
    /\ [](\A r \in runs : HardFailure(r) => pc[r] \in {"generateReport", "done"})

\* a run whose build threw ended without starting any later step
C3_Witness ==
    \E r \in runs :
        /\ Ended(r) /\ failedAt[r] = "build"
        /\ Issued(r, "npm ci") /\ ~Issued(r, "npm pkg get version") /\ ~Issued(r, "git add .")
        /\ reportWrites[r] = 1

\* what the tree held when the run started
StartDirty == start.modified \cup start.staged # {}

\* the commands that commit, tag, push or publish
IssuedWrite(r) ==
    \E c \in Range(calls[r]) :
        \E v \in tags \cup {manifest.version, start.manifest.version}, f \in BOOLEAN :
            LET cmds == {"git add .",
                         "git commit -m chore(release): v" \o VStr(v),
                         "git commit --no-verify -m chore(release): v" \o VStr(v),
                         "git tag -a v" \o VStr(v),
                         "git push origin master", "git push origin main", "git push --tags",
                         "npm publish --access public", ghCmd}
            IN  \E k \in cmds : c = (IF f THEN Failed(k) ELSE k)

\* C4: a run that starts on a tree with uncommitted changes throws in
\* pre-verification, and neither commits, tags, pushes nor issues a publish call.
C4_DirtyTreeFailsEarly ==
    \A r \in runs :
        StartDirty =>
            /\ pc[r] \in {"preVerification", "generateReport", "done"}
            /\ pc[r] # "preVerification" => HardFailure(r) /\ failedAt[r] = "preVerification"
            /\ ~IssuedWrite(r)
            /\ Range(calls[r]) \subseteq {"git rev-parse --abbrev-ref HEAD",
                                          "git status --porcelain", "write report.md"}
            /\ commits = start.commits /\ tags = start.tags /\ annotated = start.annotated
            /\ remote = start.remote
            /\ registry = start.registry /\ ghRegistry = start.ghRegistry

\* a run on master that found the tree dirty and ended
C4_Witness ==
    \E r \in runs :
        /\ StartDirty /\ start.branch = "master" /\ Ended(r)
        /\ "git status --porcelain" \in Range(calls[r])
        /\ thrown[r] = "Hay cambios sin anadir"

\* C5 (as claimed): a run whose pre-verification threw left the manifest, the
\* changelog, the working tree, the tags, the remote and the registries as they
\* were when it started.
C5_PreVerificationFailureChangesNothing ==
    \A r \in runs :
        failedAt[r] = "preVerification" =>
            /\ manifest = start.manifest /\ changelog = start.changelog
            /\ modified = start.modified /\ staged = start.staged
            /\ commits = start.commits
            /\ tags = start.tags /\ annotated = start.annotated
            /\ remote = start.remote
            /\ registry = start.registry /\ ghRegistry = start.ghRegistry

TestsWarning == "Paquete sin tests configurados - continuando con advertencia"

\* C6: when npm ci succeeded and npm test failed, step 2 throws nothing and the
\* run goes on to build; the issues of the report the run writes hold the warning
\* about the tests.
C6_TestFailureIsSoft ==
    \A r \in runs :
        Failed("npm test") \in Range(calls[r]) =>
            /\ "npm ci" \in Range(calls[r])
            /\ pc[r] \notin {"preVerification", "dependenciesAndTests"}
            /\ failedAt[r] \notin {"preVerification", "dependenciesAndTests"}
            /\ pc[r] # "build" => Line("log", "=== PASO 3: Build ===") \in Range(console[r])
            /\ TestsWarning \in Range(mgr[r].warnings)
            /\ Ended(r) => /\ TestsWarning \in Range(mgr[r].report.issues)
                           /\ TestsWarning \in Range(reportFile.issues)

\* a run whose tests failed published the package and returned
C6_Witness ==
    \E r \in runs :
        /\ Failed("npm test") \in Range(calls[r])
        /\ "npm publish --access public" \in Range(calls[r])
        /\ Ended(r) /\ exit[r] = "returned"

\* NPM_TOKEN is unset, or set to the empty string
TokenAbsent == env \in {Undefined, ""}

PublishCalled(r) ==
    \E k \in {"npm publish --access public", ghCmd} :
        k \in Range(calls[r]) \/ Failed(k) \in Range(calls[r])

\* C7: without a token no publish call is issued to either registry, neither
\* registry changes, no registry URL is recorded, and a run that reaches the
\* primary publish throws there.
C7_NoTokenNoPublish ==
    \A r \in runs :
        TokenAbsent =>
            /\ ~PublishCalled(r)
            /\ registry = start.registry /\ ghRegistry = start.ghRegistry
            /\ mgr[r].report.registryUrls = <<>>
            /\ Ended(r) => reportFile.registryUrls = <<>>
            /\ pc[r] \notin {"publishToGitHub", "verification"}
            /\ Ended(r) => HardFailure(r)
            /\ failedAt[r] = "publishToNpm" =>
                   thrown[r] = "Variable de entorno NPM_TOKEN no configurada"

\* a run without a token pushed the release, threw in the primary publish and ended
C7_Witness ==
    \E r \in runs :
        /\ env = Undefined /\ failedAt[r] = "publishToNpm" /\ Ended(r)
        /\ "git rev-parse HEAD" \in Range(calls[r])

\* C8: the run in an environment that differs only in the value of a token that
\* is set (TwinToken) and meets the same command outcomes prints the same lines,
\* throws the same errors, issues the same calls and records the same URLs, so
\* writes the same report.
C8_TokenValueNotObservable ==
    \A r \in runs : twinSame[r] /\ twinConsole[r] = console[r]

\* a run with a token published the package and ended
C8_Witness ==
    \E r \in runs :
        /\ env = "npm_SECRET_A" /\ TwinToken(env) # env
        /\ "npm publish --access public" \in Range(calls[r])
        /\ Ended(r) /\ reportWrites[r] = 1

\* C9 (as claimed): a run started where the tag of the manifest's version exists
\* leaves the version, in the manifest and in the report, as it was, creates no
\* tag and makes no release commit.
C9_RerunIdempotent ==
    \A r \in runs :
        start.manifest.version \in start.tags =>
            /\ manifest.version = start.manifest.version
            /\ mgr[r].report.version \in {Null, start.manifest.version}
            /\ tags = start.tags
            /\ commits = start.commits

\* the bump of X.Y.Z the claim gives
SemverBump(v, kind) ==
    CASE kind = "patch" -> Ver(<<v.parts[1], v.parts[2], v.parts[3] + 1>>, "")
      [] kind = "minor" -> Ver(<<v.parts[1], v.parts[2] + 1, 0>>, "")
      [] kind = "major" -> Ver(<<v.parts[1] + 1, 0, 0>>, "")
      [] OTHER -> v

VersioningDone(r) == "npm pkg get version" \in Range(calls[r])
ChangelogDone(r) ==
    \E c \in {"git describe --tags --abbrev=0", Failed("git describe --tags --abbrev=0")} :
        c \in Range(calls[r])
TagStepDone(r) == \E v \in tags : ("git tag -l v" \o VStr(v)) \in Range(calls[r])
                                    /\ "git add ." \in Range(calls[r])

\* C10 (as claimed): a run that reaches versioning where no tag of the current
\* version exists bumps the version by the release kind, in the manifest and in
\* the report; its changelog step adds a section headed with the new version and
\* the date; its commit step creates the annotated tag of the new version.
C10_BumpTagAndSection ==
    \A r \in runs :
        VersioningDone(r) /\ start.manifest.version \notin start.tags =>
            \A kind \in {"patch", "minor", "major"} :
                LET new == SemverBump(start.manifest.version, kind)
                IN  \* the kind run() was given: the one versioning read, or any
                    \* when versioning read none
                    releaseType[r] \in {kind, "<unread>"} =>
                          /\ manifest.version = new
                          /\ mgr[r].report.version = new
                          /\ ChangelogDone(r) =>
                                Heading("## [" \o VStr(new) \o "] - " \o today) \in Range(changelog)
                          /\ TagStepDone(r) =>
                                /\ new \in tags \ start.tags
                                /\ new \in annotated
                                /\ ("git tag -a v" \o VStr(new)) \in Range(calls[r])
\* the first line of a text that starts with '## [', or 0
FirstHeading(lines) ==
    IF \E i \in 1..Len(lines) : lines[i].h
    THEN CHOOSE i \in 1..Len(lines) : lines[i].h /\ \A j \in 1..(i - 1) : ~lines[j].h
    ELSE 0

\* the lines of C before its first version heading (all of C's lines when it has
\* none, no line when C is empty or missing), and the lines from that heading on
HeaderLines(c) ==
    IF c = NoFile \/ c = <<TextLine("")>> THEN <<>>
    ELSE IF FirstHeading(c) = 0 THEN c
    ELSE SubSeq(c, 1, FirstHeading(c) - 1)
RestLines(c) ==
    IF c = NoFile \/ c = <<TextLine("")>> \/ FirstHeading(c) = 0 THEN <<>>
    ELSE SubSeq(c, FirstHeading(c), Len(c))

\* C11 (as claimed): once the changelog step has run, CHANGELOG.md is the header
\* of the prior content, then the new section, then the rest of the prior
\* content: it starts with the prior lines before the first version heading, the
\* line after them is the heading of the new section, and it ends with the prior
\* lines from the first version heading on.
C11_ChangelogInsertion ==
    \A r \in runs :
        ChangelogDone(r) =>
            LET h == HeaderLines(start.changelog)
                t == RestLines(start.changelog)
                n == Len(changelog)
            IN  /\ n >= Len(h) + Len(t) + 1
                /\ SubSeq(changelog, 1, Len(h)) = h
                /\ changelog[Len(h) + 1]
                     = Heading("## [" \o VStr(mgr[r].report.version) \o "] - " \o today)
                /\ SubSeq(changelog, n - Len(t) + 1, n) = t
BranchPushes == {"git push origin " \o b : b \in Branches}
PushFailed(r) ==
    \E k \in BranchPushes \cup {"git push --tags"} : Failed(k) \in Range(calls[r])
PushesSucceeded(r) ==
    /\ \E k \in BranchPushes : k \in Range(calls[r])
    /\ "git push --tags" \in Range(calls[r])

\* C12 (as claimed): a run in which the branch push or the tags push failed threw
\* in the push step and issued no publish call; a run that issued a publish call
\* had both pushes succeed.
C12_PushFailureStopsRelease ==
    \A r \in runs :
        /\ PushFailed(r) => /\ HardFailure(r) /\ failedAt[r] = "push"
                            /\ ~PublishCalled(r)
        /\ PublishCalled(r) => PushesSucceeded(r)
\* C13 (as claimed): the secondary-registry step never throws; a failing
\* secondary publish leaves a warning, and the run goes on to verification.
C13_SecondaryPublishIsSoft ==
    \A r \in runs :
        /\ failedAt[r] # "publishToGitHub"
        /\ Failed(ghCmd) \in Range(calls[r]) =>
              /\ ("Error publicando en GitHub Packages: " \o CommandFailed(ghCmd))
                    \in Range(mgr[r].warnings)
              /\ pc[r] = "verification" \/ Issued(r, viewCmd)
Positions(r, cmd) == {i \in 1..Len(calls[r]) : calls[r][i] = cmd}
Queries(r) == Positions(r, viewCmd) \cup Positions(r, Failed(viewCmd))
Waits(r) == Positions(r, "setTimeout 5000")

\* C14: verification asks npm for the published version at most 3 times and no
\* more once a query succeeded; it waits at most twice, each time right after a
\* failed query and before the next one; when no query succeeded it throws; every
\* pass through it issues one more query, so it ends.
C14_VerificationRetries ==
    /\ [](\A r \in runs :
            /\ Cardinality(Queries(r)) <= 3
            /\ \A i \in Positions(r, viewCmd) : \A j \in Queries(r) : j <= i
            /\ Cardinality(Waits(r)) <= 2
            /\ \A i \in Waits(r) :
                  /\ i - 1 \in Positions(r, Failed(viewCmd))
                  /\ pc[r] # "verification" => i + 1 \in Queries(r)
            /\ (pc[r] # "verification" /\ Queries(r) # {} /\ Positions(r, viewCmd) = {}) =>
                  HardFailure(r) /\ failedAt[r] = "verification"
            /\ pc[r] = "verification" => ENABLED RunStep(r))
    /\ [][\A r \in runs :
            (pc[r] = "verification" /\ calls'[r] # calls[r]) =>
                Cardinality(Queries(r))' = Cardinality(Queries(r)) + 1]_vars

\* a run whose three queries all failed waited twice and ended
C14_Witness ==
    \E r \in runs :
        /\ Cardinality(Positions(r, Failed(viewCmd))) = 3 /\ Cardinality(Waits(r)) = 2
        /\ failedAt[r] = "verification" /\ Ended(r)
\* the run's successful query printed the version the report holds
FetchedExpected(r) ==
    \E i \in Positions(r, viewCmd) : calls[r][i + 1] = stdout(mgr[r].report.version)

\* C15 (as claimed): a run whose report says completed fetched from the registry
\* the version it holds; a run whose query printed anything else, nothing
\* included, threw in verification, and its report says failed.
C15_CompletedOnlyIfVersionMatches ==
    \A r \in runs :
        /\ (Ended(r) /\ reportFile.status = "completed") => FetchedExpected(r)
        /\ (Positions(r, viewCmd) # {} /\ ~FetchedExpected(r)) =>
              /\ HardFailure(r) /\ failedAt[r] = "verification"
              /\ Ended(r) => reportFile.status = "failed"
PositionsIn(q, x) == {i \in 1..Len(q) : q[i] = x}

\* C16: a run in which a step threw ends with the report written from the state
\* it had gathered (version, commit, URLs), then prints the error the step threw
\* and exits with code 1; a run exits with code 0 only when no step threw and all
\* of them ran.
C16_ExitCodes ==
    \A r \in runs :
        /\ (HardFailure(r) /\ Ended(r)) =>
              /\ exitCode(exit[r]) = 1
              /\ reportWrites[r] = 1
              /\ reportFile.version = mgr[r].report.version
              /\ reportFile.commitSha = mgr[r].report.commitSha
              /\ reportFile.registryUrls = mgr[r].report.registryUrls
              /\ console[r][Len(console[r])]
                    = Line("error", "Proceso de liberacion fallido: " \o thrown[r])
              /\ \E i \in PositionsIn(console[r], Line("log", "Reporte generado: report.md")) :
                    i < Len(console[r])
        /\ exitCode(exit[r]) = 0 =>
              /\ ~HardFailure(r) /\ failedAt[r] = "none" /\ Ended(r)
              /\ Positions(r, viewCmd) # {}
        /\ exitCode(exit[r]) # -1 <=> Ended(r)

\* a run that bumped the version and then failed to push exited with code 1
C16_Witness ==
    \E r \in runs :
        /\ failedAt[r] = "push" /\ Ended(r) /\ exitCode(exit[r]) = 1
        /\ reportFile.version = Ver(<<1, 0, 1>>, "")
\* the issues the steps of run r pushed to report.issues, by what the run did
RecordedIssues(r) ==
    (IF Failed("npm test") \in Range(calls[r]) THEN {"Tests no configurados"} ELSE {})
    \cup (IF Issued(r, "git commit --no-verify -m chore(release): v"
                          \o VStr(mgr[r].report.version))
          THEN {"Hooks de pre-commit no ejecutados"} ELSE {})
    \cup (IF script = Current /\ Failed(ghCmd) \in Range(calls[r])
          THEN {"Error en publicacion de GitHub Packages"} ELSE {})

\* C17 (as claimed): the issues of the written report hold every warning of the
\* run and every issue its steps recorded.
C17_IssuesKeepEverything ==
    \A r \in runs :
        Ended(r) =>
            /\ Range(mgr[r].warnings) \subseteq Range(reportFile.issues)
            /\ RecordedIssues(r) \subseteq Range(reportFile.issues)
\* v is three numbers joined by dots and nothing more: ^\d+\.\d+\.\d+$
MatchesXYZ(v) == Len(v.parts) = 3 /\ v.pre = ""

\* C18 (as claimed): the version of the release state is null or matches
\* ^\d+\.\d+\.\d+$ in every state.
C18_VersionAlwaysXYZ ==
    \A r \in runs : mgr[r].report.version = Null \/ MatchesXYZ(mgr[r].report.version)
\* C19: the status of the release state is 'pending' from construction until
\* report generation; only report generation changes it, and to 'completed' or
\* 'failed'.
C19_PendingUntilReport ==
    /\ [](\A r \in runs :
            /\ ~Ended(r) => mgr[r].report.status = "pending"
            /\ Ended(r) => mgr[r].report.status \in {"completed", "failed"})
    /\ [][\A r \in runs :
            mgr'[r].report.status # mgr[r].report.status =>
                /\ pc[r] = "generateReport" /\ pc'[r] = "done"
                /\ mgr[r].report.status = "pending"]_vars

\* a run is about to generate its report after a step threw, still pending
C19_Witness ==
    \E r \in runs :
        /\ pc[r] = "generateReport" /\ HardFailure(r)
        /\ Issued(r, "npm ci") /\ mgr[r].report.status = "pending"
\* C20 (as claimed): a run in which no step threw returns the release state to
\* its caller, with status 'completed'.
C20_RunReturnsState ==
    \A r \in runs :
        exit[r] = "returned" =>
            /\ mgr[r].report.status = "completed"
            /\ runReturnValue(mgr[r]) = mgr[r].report
CommitCmd(r) == "git commit -m chore(release): v" \o VStr(mgr[r].report.version)
CommitNoVerifyCmd(r) == "git commit --no-verify -m chore(release): v" \o VStr(mgr[r].report.version)
CommitTries(r) == Positions(r, CommitCmd(r)) \cup Positions(r, Failed(CommitCmd(r)))
CommitRetries(r) ==
    Positions(r, CommitNoVerifyCmd(r)) \cup Positions(r, Failed(CommitNoVerifyCmd(r)))

\* C21: the commit is tried once and retried at most once; the retry, with
\* --no-verify, follows a failure whose message names the pre-commit hook and
\* nothing else; a retry that succeeds leaves one issue and one solution and the
\* run goes on; any other failure, and a failing retry, throw in the commit step.
C21_CommitRetriedOnceForHook ==
    \A r \in runs :
        /\ Cardinality(CommitTries(r)) <= 1 /\ Cardinality(CommitRetries(r)) <= 1
        /\ \A i \in CommitRetries(r) :
              /\ i >= 3 /\ calls[r][i - 2] = Failed(CommitCmd(r))
              /\ calls[r][i - 1] = PreCommitMessage
        /\ \A i \in Positions(r, Failed(CommitCmd(r))) :
              calls[r][i + 1] = PreCommitMessage => i + 2 \in CommitRetries(r)
        /\ Positions(r, CommitNoVerifyCmd(r)) # {} =>
              /\ failedAt[r] # "commitAndTag"
              /\ PositionsIn(mgr[r].report.solutions,
                             "Se recomienda ejecutar hooks de calidad manualmente") # {}
              /\ Cardinality(PositionsIn(mgr[r].report.solutions,
                             "Se recomienda ejecutar hooks de calidad manualmente")) = 1
              /\ ~Ended(r) =>
                    Cardinality(PositionsIn(mgr[r].report.issues,
                                            "Hooks de pre-commit no ejecutados")) = 1
        /\ (Positions(r, Failed(CommitCmd(r))) # {} /\ Positions(r, CommitNoVerifyCmd(r)) = {}) =>
              HardFailure(r) /\ failedAt[r] = "commitAndTag"

\* a run retried its commit without the hooks, succeeded and went on to the end
C21_Witness ==
    \E r \in runs :
        /\ Positions(r, CommitNoVerifyCmd(r)) # {} /\ Positions(r, Failed(CommitCmd(r))) # {}
        /\ Ended(r) /\ exit[r] = "returned"
\* the commit step of run r made a commit and completed
CommitStepCommitted(r) ==
    /\ Len(commits) > Len(start.commits)
    /\ pc[r] # "commitAndTag" /\ failedAt[r] # "commitAndTag"

TagCmd(r) == "git tag -a v" \o VStr(mgr[r].report.version)

\* C22 (as claimed): once the commit step has made its commit and completed, the
\* annotated tag of the version in the release state exists, and the step issued
\* git tag -a exactly when no tag of that name existed before the run.
C22_TagCreatedWhenAbsent ==
    \A r \in runs :
        CommitStepCommitted(r) =>
            /\ mgr[r].report.version \in tags
            /\ mgr[r].report.version \in annotated
            /\ Positions(r, TagCmd(r)) # {} <=> mgr[r].report.version \notin start.tags
TagsPushes(r) == Positions(r, "git push --tags") \cup Positions(r, Failed("git push --tags"))

\* C23 (as claimed): the branch the run pushes is the branch checked out when it
\* started, master or main, and the tags push comes after that branch push.
C23_PushesCheckedOutBranch ==
    \A r \in runs :
        /\ \A b \in Branches :
              Issued(r, "git push origin " \o b) => b = start.branch /\ b \in {"master", "main"}
        /\ \A i \in TagsPushes(r) :
              \E j \in 1..(i - 1) : calls[r][j] = "git push origin " \o start.branch
\* the run started with no tag, or with no commit after the last tag
NothingToList == start.tags = {} \/ start.commits = <<>>

\* C24: with no tags, or with no commits since the last tag and nothing staged,
\* the changelog step throws nothing: it warns, writes a section whose Changed
\* list is the placeholder line alone, and the run goes on to the commit step.
C24_EmptyChangelogIsSoft ==
    \A r \in runs :
        /\ failedAt[r] # "updateChangelog"
        /\ (ChangelogDone(r) /\ NothingToList) =>
              LET k == FirstHeading(changelog)
              IN  /\ "No se encontraron cambios desde el ultimo tag" \in Range(mgr[r].warnings)
                  /\ start.tags = {} =>
                        "No se encontraron tags anteriores" \in Range(mgr[r].warnings)
                  /\ k > 0 /\ Len(changelog) >= k + 4
                  /\ changelog[k] = Heading("## [" \o VStr(mgr[r].report.version)
                                               \o "] - " \o today)
                  /\ changelog[k + 2] = TextLine("### Changed")
                  /\ changelog[k + 3] = TextLine("- Release automatico")
                  /\ changelog[k + 4] = TextLine("")
                  /\ pc[r] = "commitAndTag" \/ Issued(r, "git add .")

\* a run with a tag, no commit after it and nothing staged is at the commit step
C24_Witness ==
    \E r \in runs :
        /\ start.tags # {} /\ start.commits = <<>>
        /\ "git diff --cached --name-only" \in Range(calls[r])
        /\ pc[r] = "commitAndTag" /\ ~HardFailure(r)
\* C25 (as claimed): when the descriptive npm view fails after the version was
\* verified, verification throws nothing: it warns, stores the placeholder as
\* package information, and the run ends completed.
C25_MetadataFailureIsSoft ==
    \A r \in runs :
        Failed(infoCmd) \in Range(calls[r]) =>
            /\ FetchedExpected(r)
            /\ ~HardFailure(r) /\ failedAt[r] = "none"
            /\ ("No se pudo obtener informacion completa del paquete: "
                   \o CommandFailed(infoCmd)) \in Range(mgr[r].warnings)
            /\ mgr[r].report.packageInfo = "Informacion no disponible"
            /\ Ended(r) => reportFile.status = "completed" /\ exit[r] = "returned"
\* a run bumped the version: it read a release kind and ran npm version
Bumped(r) ==
    /\ releaseType[r] # "<unread>"
    /\ ("npm version " \o releaseType[r] \o " --no-git-tag-version") \in Range(calls[r])

\* C26: two runs on one working tree are not kept apart. Whatever the other run
\* is doing, a run whose pre-verification finds master and a clean tree passes
\* it; a run whose versioning finds no tag of the manifest's version bumps the
\* manifest; and a run whose commit step commits and finds no tag of its version
\* creates that tag.
C26_RunsNotMutuallyExcluded ==
    [][\A r \in runs :
          /\ (pc[r] = "preVerification" /\ pc'[r] # pc[r] /\ modified = {} /\ staged = {}) =>
                /\ pc'[r] = "dependenciesAndTests" /\ thrown'[r] = NoError
          /\ (pc[r] = "versioning" /\ pc'[r] # pc[r] /\ manifest.version \notin tags) =>
                /\ manifest'.version = npmVersion(manifest.version, releaseType'[r])
                /\ mgr'[r].report.version = manifest'.version
                /\ Bumped(r)'
          /\ (pc[r] = "commitAndTag" /\ pc'[r] # pc[r] /\ Len(commits') > Len(commits)
                 /\ mgr[r].report.version \notin tags) =>
                /\ tags' = tags \cup {mgr[r].report.version}
                /\ TagCmd(r) \in Range(calls'[r])
    ]_vars

\* both runs passed pre-verification, found no tag and bumped, and both created a
\* tag and called npm publish
C26_Witness ==
    /\ runs = {1, 2}
    /\ \A r \in runs :
          /\ Bumped(r)
          /\ TagCmd(r) \in Range(calls[r])
          /\ Issued(r, "npm publish --access public")
    /\ Cardinality(tags) = 2
\* the run threw at the primary publish for want of a token
TokenFailure(r) == TokenAbsent /\ failedAt[r] = "publishToNpm"

\* C27 (as claimed): a run without a token fails at the primary publish only, and
\* by then the manifest version is bumped, the changelog rewritten, the release
\* commit and the tag of the version made, and both are on the remote, while the
\* registry is as it was.
C27_TokenCheckedAfterPush ==
    \A r \in runs :
        /\ (TokenAbsent /\ HardFailure(r) /\ failedAt[r] \notin {"preVerification",
               "dependenciesAndTests", "build", "versioning", "updateChangelog",
               "commitAndTag", "push"}) => failedAt[r] = "publishToNpm"
        /\ TokenFailure(r) =>
              /\ manifest.version # start.manifest.version
              /\ changelog # start.changelog
              /\ Len(commits) = Len(start.commits) + 1
              /\ mgr[r].report.version \in tags \ start.tags
              /\ remote.head[branch] = Len(commits)
              /\ mgr[r].report.version \in remote.tags
              /\ registry = start.registry /\ ghRegistry = start.ghRegistry
\* C28: a run at its commit step has its changelog step behind it: CHANGELOG.md
\* holds a section headed with the run's version that it did not hold at the
\* start, and git status lists the file. So no run takes the `nothing to commit`
\* return, and a commit step that completes has made a commit, whether or not
\* the version was bumped.
C28_TreeNeverCleanAtCommit ==
    \A r \in runs :
        /\ pc[r] = "commitAndTag" =>
              /\ ChangelogDone(r)
              /\ changelog # start.changelog
              /\ Heading("## [" \o VStr(mgr[r].report.version) \o "] - " \o today)
                    \in Range(changelog)
              /\ "CHANGELOG.md" \in modified \cup staged
        /\ Line("log", "No hay cambios para commitear") \notin Range(console[r])
        /\ ("git add ." \in Range(calls[r]) /\ failedAt[r] # "commitAndTag") =>
              Len(commits) = Len(start.commits) + 1

\* a run that did not bump the version has committed
C28_Witness ==
    \E r \in runs :
        /\ VersioningDone(r) /\ releaseType[r] = "<unread>"
        /\ manifest.version = start.manifest.version
        /\ pc[r] = "push"
        /\ Len(commits) = Len(start.commits) + 1
\* an entry of the staged-files fallback: `- Cambios en archivos: <names>`
StagedEntries ==
    {TextLine("- Cambios en archivos: " \o JoinComma(Files, among)) :
        among \in (SUBSET Range(Files)) \ {{}}}

\* the run is past a pre-verification it passed, and not past its commit step
BeforeCommit(r) ==
    pc[r] \in {"dependenciesAndTests", "build", "versioning", "updateChangelog",
               "commitAndTag"}

\* C29: from a passed pre-verification up to the commit step nothing is staged;
\* no changelog ever gets a staged-files entry; and a changelog step that finds a
\* tag and no commit after it asks for the staged files, finds none, warns and
\* writes the placeholder line under the new heading.
C29_NothingStagedBeforeCommit ==
    \A r \in runs :
        /\ BeforeCommit(r) => staged = {}
        /\ Range(changelog) \cap StagedEntries = {}
        /\ (pc[r] = "commitAndTag" /\ tags # {} /\ gitLogSinceLastTag = <<>>) =>
              LET i == FirstHeading(changelog)
              IN  /\ "git diff --cached --name-only" \in Range(calls[r])
                  /\ i > 0 /\ Len(changelog) >= i + 3
                  /\ changelog[i] = Heading("## [" \o VStr(mgr[r].report.version)
                                                \o "] - " \o today)
                  /\ changelog[i + 2] = TextLine("### Changed")
                  /\ changelog[i + 3] = TextLine("- Release automatico")
                  /\ "No se encontraron cambios desde el ultimo tag"
                        \in Range(mgr[r].warnings)

\* a changelog step that found a tag and no commit after it has written its section
C29_Witness ==
    \E r \in runs :
        /\ pc[r] = "commitAndTag" /\ tags # {} /\ gitLogSinceLastTag = <<>>
        /\ "git diff --cached --name-only" \in Range(calls[r])
        /\ TextLine("- Release automatico") \in Range(changelog)
\* the run's push step pushed the branch and then the tags
BothPushed(r) ==
    \E k \in BranchPushes :
        \E i \in Positions(r, k) : \E j \in Positions(r, "git push --tags") : i < j

\* C30: in the current script the commit identifier of the release state is null
\* until the push step has pushed both the branch and the tags; it is set once,
\* by the push step, to the head after the pushes, and is the one the report
\* prints; a run that threw at the push step or before it writes a report whose
\* commit identifier is null.
C30_CommitShaSetOnceAfterPushes ==
    [][\A r \in runs : script = Current =>
          /\ (mgr[r].report.commitSha # mgr'[r].report.commitSha) =>
                /\ pc[r] = "push" /\ mgr[r].report.commitSha = "null"
                /\ mgr'[r].report.commitSha = HeadSha(commits')
                /\ remote'.head[branch] = Len(commits')
          /\ (mgr'[r].report.commitSha # "null") => BothPushed(r)'
          /\ (pc'[r] = "done" /\ pc[r] # "done") =>
                /\ reportFile'.commitSha = mgr'[r].report.commitSha
                /\ failedAt'[r] \in {"preVerification", "dependenciesAndTests", "build",
                      "versioning", "updateChangelog", "commitAndTag", "push"} =>
                      reportFile'.commitSha = "null"
    ]_vars

\* a run that pushed the branch and the tags has its commit identifier set
C30_Witness ==
    \E r \in runs :
        /\ script = Current
        /\ BothPushed(r)
        /\ mgr[r].report.commitSha = HeadSha(commits)
        /\ pc[r] = "publishToNpm"
====
